---------------------------- MODULE Spec2Model ----------------------------
(***************************************************************************)
(* The FinAI Task 2 fine-tuning notebook (task_2_finetune.ipynb): the      *)
(* cells that hold logic of their own are the train/test splitter, the     *)
(* config merger and the fine-tuning call.  The state is the files the     *)
(* cells read and write, the kernel globals the cells assign, the global   *)
(* random generator and the position of the run in the notebook.           *)
(***************************************************************************)
EXTENDS Integers, Sequences, FiniteSets, TLC

(***************************************************************************)
(* Bounds of the model.                                                    *)
(***************************************************************************)
\* longest raw input, in lines, over the two-letter line alphabet
MaxLen == 10
\* longest raw input, in lines, when blank lines are drawn too
ShortLen == 4
\* most entries (duplicates included) of the initial config file
MaxEntries == 2
\* most executions of one cell (a notebook cell can be run again)
MaxRuns == 2
\* most words another cell draws from the global generator before a split
MaxPrior == 1
\* longest raw input, in lines, when the files the run finds are drawn too
SmallLen == 2
\* longest raw input, in characters, when every line ending is drawn too
TextLen == 4

(***************************************************************************)
(* Text.  A text is a sequence of characters, a line a sequence of         *)
(* characters without the newline.                                         *)
(***************************************************************************)
NL == "\n"

CR == "\r"

FF == "\f"

\* the characters str.splitlines ends a line at; the ones TLA+ has no
\* escape for are named by their code points
LineBreaks ==
    {NL, CR, FF, "U+000B", "U+001C", "U+001D", "U+001E", "U+0085", "U+2028",
     "U+2029"}

Chars == {"a", "b"}

\* the characters of the raw inputs that are drawn character by character
TextChars == {"a", NL, CR, FF}

RECURSIVE ReadFrom(_, _)
ReadFrom(text, i) ==
    IF i > Len(text) THEN <<>>
    ELSE IF text[i] = CR /\ i < Len(text) /\ text[i + 1] = NL
         THEN <<NL>> \o ReadFrom(text, i + 2)
         ELSE IF text[i] = CR
              THEN <<NL>> \o ReadFrom(text, i + 1)
              ELSE <<text[i]>> \o ReadFrom(text, i + 1)

\* open(path, 'r').read(): the text of the file, with "\r\n" and "\r" read
\* as "\n" (universal newlines)
ReadText(text) == ReadFrom(text, 1)

\* the contents a line of the model can have: blank, or one letter
LineVals == {<<>>} \cup {<<c>> : c \in Chars}

\* the non-blank ones
LetterLines == {<<c>> : c \in Chars}

RECURSIVE SplitFrom(_, _, _)
SplitFrom(text, i, cur) ==
    IF i > Len(text)
    THEN (IF cur = <<>> THEN <<>> ELSE <<cur>>)
    ELSE IF text[i] = CR /\ i < Len(text) /\ text[i + 1] = NL
         THEN <<cur>> \o SplitFrom(text, i + 2, <<>>)
         ELSE IF text[i] \in LineBreaks
              THEN <<cur>> \o SplitFrom(text, i + 1, <<>>)
              ELSE SplitFrom(text, i + 1, Append(cur, text[i]))

\* str.splitlines(): the lines of a text, without their line breaks
\* ("\r\n" is one break); a final break opens no further line
SplitLines(text) == SplitFrom(text, 1, <<>>)

RECURSIVE JoinNL(_)
\* '\n'.join(ls)
JoinNL(ls) ==
    IF Len(ls) = 0 THEN <<>>
    ELSE IF Len(ls) = 1 THEN ls[1]
    ELSE ls[1] \o <<NL>> \o JoinNL(Tail(ls))

\* what the splitter writes for a partition: '\n'.join(part) + '\n'
PartitionText(part) == JoinNL(part) \o <<NL>>

(***************************************************************************)
(* The global random generator.  CPython's generator is MT19937; its state *)
(* after random.seed(a) and p draws of a 32-bit word is (a, p).  The       *)
(* shuffles of this model draw at most 8 bits of a word (lists shorter     *)
(* than 256), so a stream is kept as the top 8 bits of its words.          *)
(***************************************************************************)
Seed == 42

\* the seed standing for a generator that was not seeded with 42
OtherSeed == 0

\* top 8 bits of the words MT19937 yields after random.seed(42)
Stream42 ==
    << 163, 28, 6, 189, 70, 62, 57, 35, 188, 26, 173, 189, 228, 139, 22, 151,
       108, 8, 7, 23, 55, 59, 129, 154, 6, 143, 50, 183, 166, 179, 139, 107,
       56, 114, 150, 71, 207, 222, 1, 194, 206, 40, 178, 108, 87, 71, 39, 55,
       245, 195, 86, 26, 23, 97, 24, 91, 216, 88, 154, 67, 206, 11, 186, 117,
       137, 31, 249, 236, 96, 20, 141, 75, 212, 160, 158, 226, 220, 92, 147,
       49, 180, 17, 11, 169, 58, 197, 74, 252, 20, 218, 59, 221, 25, 97, 71,
       116 >>

\* top 8 bits of the words MT19937 yields after random.seed(0)
Stream0 ==
    << 216, 98, 194, 227, 107, 10, 66, 247, 130, 124, 103, 235, 200, 212, 77,
       247, 122, 91, 149, 228, 232, 55, 129, 35, 72, 35, 193, 24, 158, 204, 64,
       252, 232, 136, 251, 180, 207, 154, 230, 37, 79, 25, 186, 18, 230, 217,
       175, 84, 120, 143, 25, 90, 111, 80, 156, 163, 233, 52, 247, 141, 122,
       113, 221, 133, 66, 15, 206, 235, 140, 234, 3, 23, 184, 215, 102, 181,
       211, 200, 171, 160, 0, 156, 126, 211, 222, 85, 62, 186, 83, 180, 222,
       16, 48, 234, 145, 56 >>

Stream(seed) == IF seed = Seed THEN Stream42 ELSE Stream0

RECURSIVE Pow2(_)
Pow2(k) == IF k = 0 THEN 1 ELSE 2 * Pow2(k - 1)

RECURSIVE BitLength(_)
\* int.bit_length()
BitLength(m) == IF m = 0 THEN 0 ELSE 1 + BitLength(m \div 2)

\* random.seed(a) without the reseeding: the generator is left as it was
RandomSeedKept(rng, a) == rng

\* random.seed(a)
RandomSeed(rng, a) == [seed |-> a, pos |-> 0]

\* random.getrandbits(k), k <= 8: the top k bits of the next word; for
\* k = 0 it is 0 and no word is drawn
GetRandBits(rng, k) ==
    IF k = 0
    THEN [val |-> 0, rng |-> rng]
    ELSE [val |-> Stream(rng.seed)[rng.pos + 1] \div Pow2(8 - k),
          rng |-> [rng EXCEPT !.pos = @ + 1]]

RECURSIVE RandBelowLoop(_, _, _)
RandBelowLoop(rng, m, k) ==
    LET r == GetRandBits(rng, k)
    IN  IF r.val >= m THEN RandBelowLoop(r.rng, m, k) ELSE r

\* Random._randbelow_with_getrandbits(m): draw bit_length(m) bits until the
\* value is below m
RandBelow(rng, m) == RandBelowLoop(rng, m, BitLength(m))

\* x[i], x[j] = x[i], x[i]: the exchange that loses x[j]
SwapLossy(x, i, j) == [x EXCEPT ![j] = x[i]]

\* x[i], x[j] = x[j], x[i]   (positions from 1)
Swap(x, i, j) == [x EXCEPT ![i] = x[j], ![j] = x[i]]

RECURSIVE ShuffleFrom(_, _, _)
\* the loop of random.shuffle from index i (from 0, as in Python) down to 1
ShuffleFrom(x, i, rng) ==
    IF i < 1 THEN [x |-> x, rng |-> rng]
    ELSE LET r == RandBelow(rng, i + 1)
         IN  ShuffleFrom(Swap(x, i + 1, r.val + 1), i - 1, r.rng)

\* random.shuffle(x): the shuffled list and the generator after it
Shuffle(x, rng) == ShuffleFrom(x, Len(x) - 1, rng)

\* int(0.2 * n): the fraction of the other partition
NTrainTestShare(len) == (2 * len) \div 10

\* round(0.8 * n): rounding instead of truncating
NTrainRounded(len) == (8 * len + 5) \div 10

\* n_train = int(0.8 * n).  The double 0.8 exceeds 4/5 by less than 2^-54,
\* and the product is rounded to a double before int() truncates it, so for
\* n < 2^50 the result is the floor of 8n/10.
NTrain(len) == (8 * len) \div 10

\* lines[:n_train]
TrainSlice(ls, k) == SubSeq(ls, 1, k)

\* lines[n_train:]
TestSlice(ls, k) == SubSeq(ls, k + 1, Len(ls))


(***************************************************************************)
(* Paths, as sequences of components, relative to the FinLoRA checkout     *)
(* the setup cell changes into.                                            *)
(***************************************************************************)
TrainPath == <<"data", "train", "finai_train.jsonl">>

TestPath == <<"data", "test", "finai_test.jsonl">>

TrainDir == <<"data", "train">>

TestDir == <<"data", "test">>

RECURSIVE Normalize(_, _)
\* the components of a path with each ".." cancelling the directory named
\* before it; a ".." that climbs above the start stays
Normalize(done, rest) ==
    IF rest = <<>> THEN done
    ELSE IF Head(rest) = ".." /\ done # <<>> /\ done[Len(done)] # ".."
         THEN Normalize(SubSeq(done, 1, Len(done) - 1), Tail(rest))
         ELSE Normalize(Append(done, Head(rest)), Tail(rest))

\* the file a relative path names for a process whose working directory
\* is dir
Resolve(dir, path) == Normalize(<<>>, dir \o path)

(***************************************************************************)
(* The configuration file.  Its JSON text is an object: a sequence of      *)
(* key/value members, closed by a brace.  json.load makes a dict of it,    *)
(* kept here as the keys in insertion order and the value of each key.     *)
(***************************************************************************)
MergeKey == "finai_llama_3_1_8b_8bits_r8_lora"

FinetuneKey == "competition_llama_3_1_8b_8bits_r8_lora"

\* the value the config merger stores under MergeKey
NewEntry ==
    [base_model |-> "meta-llama/Llama-3.1-8B-Instruct",
     dataset_path |-> <<"..", "data", "train", "competition_train.jsonl">>,
     lora_r |-> 8,
     quant_bits |-> 8,
     learning_rate |-> "1e-4",
     num_epochs |-> 4,
     batch_size |-> 2,
     gradient_accumulation_steps |-> 2]

\* another configuration record, as FinLoRA's file holds them
OtherEntry ==
    [NewEntry EXCEPT !.dataset_path = <<"..", "data", "train", "other.jsonl">>,
                     !.lora_r = 4, !.quant_bits = 4]

\* keys and values the initial config file is drawn from
ConfigKeys == {MergeKey, FinetuneKey, "m1"}

ConfigValues == {NewEntry, OtherEntry}

Members == [key : ConfigKeys, value : ConfigValues]

EmptyDict == [keys |-> <<>>, val |-> <<>>]

HasKey(d, k) == \E i \in 1..Len(d.keys) : d.keys[i] = k

\* the value of key k in d (k is a key of d)
Lookup(d, k) == d.val[CHOOSE i \in 1..Len(d.keys) : d.keys[i] = k]

\* d[k] = v: a key of d keeps its place and takes the value, a new key goes
\* last
DictSet(d, k, v) ==
    IF HasKey(d, k)
    THEN [d EXCEPT !.val =
            [i \in 1..Len(d.keys) |-> IF d.keys[i] = k THEN v ELSE d.val[i]]]
    ELSE [keys |-> Append(d.keys, k), val |-> Append(d.val, v)]

RECURSIVE LoadMembers(_, _)
LoadMembers(d, ms) ==
    IF ms = <<>> THEN d
    ELSE LoadMembers(DictSet(d, Head(ms).key, Head(ms).value), Tail(ms))

\* json.load of the members of an object: a repeated key keeps its first
\* place and its last value
JsonLoad(ms) == LoadMembers(EmptyDict, ms)

\* json.dump of a dict: its members in insertion order
JsonDump(d) ==
    [i \in 1..Len(d.keys) |-> [key |-> d.keys[i], value |-> d.val[i]]]

\* the key set of a dict
KeySet(d) == {d.keys[i] : i \in 1..Len(d.keys)}

\* configs = {key: entry}: the assignment that forgets the other keys
MergeEntryAlone(d) == [keys |-> <<MergeKey>>, val |-> <<NewEntry>>]

\* the assignment that adds a member also when the key is there already
MergeEntryAppending(d) ==
    [keys |-> Append(d.keys, MergeKey), val |-> Append(d.val, NewEntry)]

\* configs["finai_llama_3_1_8b_8bits_r8_lora"] = {...}
MergeEntry(d) == DictSet(d, MergeKey, NewEntry)

(***************************************************************************)
(* State.                                                                  *)
(***************************************************************************)
VARIABLES
    pc,           \* where the run is in the notebook
    error,        \* the exception that stopped the run, "none" if none
    cwd,          \* working directory of the kernel
    rawFile,      \* data/finai_raw.jsonl
    trainFile,    \* data/train/finai_train.jsonl
    testFile,     \* data/test/finai_test.jsonl
    dirs,         \* the directories among data/train, data/test that exist
    configFile,   \* lora/finetune_configs.json
    rng,          \* the global generator of module random
    lines,        \* kernel globals of the splitter cell
    n,
    n_train,
    train_lines,
    test_lines,
    splitOut,     \* what the splitter cell printed when it last ran
    configs,      \* kernel global of the config cell
    finetuneArg,  \* the argument finetune.py was started with, "" before
    splitRuns,    \* completed executions of the splitter cell
    cfgRuns,      \* completed executions of the config cell
    cfgBefore     \* the config file as the running config cell found it

vars ==
    <<pc, error, cwd, rawFile, trainFile, testFile, dirs, configFile, rng,
      lines, n, n_train, train_lines, test_lines, splitOut, configs,
      finetuneArg, splitRuns, cfgRuns, cfgBefore>>

splitVars == <<lines, n, n_train, train_lines, test_lines>>

\* a file that does not exist, and a file holding a text
NoFile == [exists |-> FALSE, text |-> <<>>]

TextFile(t) == [exists |-> TRUE, text |-> t]

\* a config file holding the members ms, with its closing brace or cut
\* before it
ConfigText(ms, closed) == [members |-> ms, closed |-> closed]

\* open(path, 'w'): the file exists and is empty
Truncated == ConfigText(<<>>, FALSE)


(***************************************************************************)
(* Initial states: the setup cells have run, the kernel is in the FinLoRA  *)
(* checkout and no cell of the walk-through has run yet.                   *)
(***************************************************************************)
BoundedSeq(S, len) == UNION {[1..k -> S] : k \in 0..len}

\* a raw file of the given lines, its last line ended by a newline or not
RawText(ls, ended) == JoinNL(ls) \o (IF ended THEN <<NL>> ELSE <<>>)

RawInputs ==
    {TextFile(RawText(ls, e)) :
        ls \in BoundedSeq(LetterLines, MaxLen) \cup BoundedSeq(LineVals, ShortLen),
        e \in BOOLEAN}
    \cup {TextFile(t) : t \in BoundedSeq(TextChars, TextLen)}

SmallRawInputs ==
    {NoFile} \cup
    {TextFile(RawText(ls, e)) : ls \in BoundedSeq(LineVals, SmallLen), e \in BOOLEAN}

\* states another cell can have left the global generator in
RngStates == [seed : {Seed, OtherSeed}, pos : 0..MaxPrior]

\* a train or test file left by an earlier run over other data
StaleFile == TextFile(<<"b", NL, "b", NL>>)

\* the config file as FinLoRA ships it or an earlier run left it: an
\* object, or an object cut short by an interrupted write
ConfigFiles ==
    {ConfigText(ms, c) : ms \in BoundedSeq(Members, MaxEntries), c \in BOOLEAN}

InitKernel ==
    /\ pc = "start"
    /\ error = "none"
    /\ cwd = <<>>
    /\ lines = <<>>
    /\ n = 0
    /\ n_train = 0
    /\ train_lines = <<>>
    /\ test_lines = <<>>
    /\ splitOut = [kind |-> "none", n |-> 0, n_train |-> 0, n_test |-> 0]
    /\ configs = EmptyDict
    /\ finetuneArg = ""
    /\ splitRuns = 0
    /\ cfgRuns = 0
    /\ cfgBefore = configFile

\* every raw input, in a fresh checkout
InitInputs ==
    /\ rawFile \in RawInputs
    /\ trainFile = NoFile
    /\ testFile = NoFile
    /\ dirs = {}
    /\ rng = [seed |-> OtherSeed, pos |-> 0]
    /\ configFile = ConfigText(<<>>, TRUE)

\* small raw inputs, or none, with whatever an earlier run left behind
InitLeftovers ==
    /\ rawFile \in SmallRawInputs
    /\ trainFile \in {NoFile, StaleFile}
    /\ testFile \in {NoFile, StaleFile}
    /\ dirs \in SUBSET {TrainDir, TestDir}
    /\ trainFile.exists => TrainDir \in dirs
    /\ testFile.exists => TestDir \in dirs
    /\ rng \in RngStates
    /\ configFile = ConfigText(<<>>, TRUE)

\* every config file, with or without a raw input
InitConfigs ==
    /\ rawFile \in {NoFile, TextFile(<<"a", NL, "b", NL>>)}
    /\ trainFile = NoFile
    /\ testFile = NoFile
    /\ dirs = {}
    /\ rng = [seed |-> OtherSeed, pos |-> 0]
    /\ configFile \in ConfigFiles

\* the walk-through: Splitter -> Config merger -> fine-tune call
Init ==
    /\ InitLeftovers \/ InitConfigs
    /\ InitKernel

\* the splitter cell alone, over every raw input
SplitInit ==
    /\ InitInputs \/ InitLeftovers
    /\ InitKernel

(***************************************************************************)
(* The splitter cell.                                                      *)
(***************************************************************************)
\* the cell can be executed: first, or again before the run moves on
CanSplit == pc = "start" \/ (pc = "split_done" /\ splitRuns < MaxRuns)

\* the else branch, were it to create the outputs empty
SplitMissingCreating ==
    /\ CanSplit
    /\ ~rawFile.exists
    /\ splitOut' = [kind |-> "create", n |-> 0, n_train |-> 0, n_test |-> 0]
    /\ dirs' = dirs \cup {TrainDir, TestDir}
    /\ trainFile' = TextFile(PartitionText(<<>>))
    /\ testFile' = TextFile(PartitionText(<<>>))
    /\ pc' = "split_done"
    /\ splitRuns' = splitRuns + 1
    /\ UNCHANGED <<error, cwd, rawFile, configFile, rng, splitVars, configs,
                   finetuneArg, cfgRuns, cfgBefore>>

\* raw_file.exists() is false: the cell prints "Please create ..." and ends
SplitMissing ==
    /\ CanSplit
    /\ ~rawFile.exists
    /\ splitOut' = [kind |-> "create", n |-> 0, n_train |-> 0, n_test |-> 0]
    /\ pc' = "split_done"
    /\ splitRuns' = splitRuns + 1
    /\ UNCHANGED <<error, cwd, rawFile, trainFile, testFile, dirs, configFile,
                   rng, splitVars, configs, finetuneArg, cfgRuns, cfgBefore>>

\* raw_file.exists() is true: read, seed, shuffle, slice, make the
\* directories, write both files, print the counts
SplitPresent ==
    /\ CanSplit
    /\ rawFile.exists
    /\ \E sh \in {Shuffle(SplitLines(ReadText(rawFile.text)),
                            RandomSeed(rng, Seed))} :
        /\ lines' = sh.x
        /\ rng' = sh.rng
        /\ n' = Len(sh.x)
        /\ n_train' = NTrain(n')
        /\ train_lines' = TrainSlice(lines', n_train')
        /\ test_lines' = TestSlice(lines', n_train')
        /\ dirs' = dirs \cup {TrainDir, TestDir}
        /\ trainFile' = TextFile(PartitionText(train_lines'))
        /\ testFile' = TextFile(PartitionText(test_lines'))
        /\ splitOut' = [kind |-> "split", n |-> n',
                        n_train |-> Len(train_lines'),
                        n_test |-> Len(test_lines')]
    /\ pc' = "split_done"
    /\ splitRuns' = splitRuns + 1
    /\ UNCHANGED <<error, cwd, rawFile, configFile, configs, finetuneArg,
                   cfgRuns, cfgBefore>>

\* between two executions of the splitter another cell seeds the global
\* generator and draws from it
OtherRandomUse ==
    /\ pc = "split_done"
    /\ splitRuns < MaxRuns
    /\ \E s \in RngStates : s # rng /\ rng' = s
    /\ UNCHANGED <<pc, error, cwd, rawFile, trainFile, testFile, dirs,
                   configFile, splitVars, splitOut, configs, finetuneArg,
                   splitRuns, cfgRuns, cfgBefore>>

(***************************************************************************)
(* The config cell.                                                        *)
(***************************************************************************)
CanMerge == pc = "split_done" \/ (pc = "config_done" /\ cfgRuns < MaxRuns)

\* json.load(f) of an object
CfgLoad ==
    /\ CanMerge
    /\ configFile.closed
    /\ configs' = JsonLoad(configFile.members)
    /\ cfgBefore' = configFile
    /\ pc' = "cfg_loaded"
    /\ UNCHANGED <<error, cwd, rawFile, trainFile, testFile, dirs, configFile,
                   rng, splitVars, splitOut, finetuneArg, splitRuns, cfgRuns>>

\* json.load(f) of a text that is no JSON value: JSONDecodeError
CfgLoadFail ==
    /\ CanMerge
    /\ ~configFile.closed
    /\ cfgBefore' = configFile
    /\ error' = "JSONDecodeError"
    /\ pc' = "aborted"
    /\ UNCHANGED <<cwd, rawFile, trainFile, testFile, dirs, configFile, rng,
                   splitVars, splitOut, configs, finetuneArg, splitRuns,
                   cfgRuns>>

\* the assignment of the new entry to configs
CfgAssign ==
    /\ pc = "cfg_loaded"
    /\ configs' = MergeEntry(configs)
    /\ pc' = "cfg_assigned"
    /\ UNCHANGED <<error, cwd, rawFile, trainFile, testFile, dirs, configFile,
                   rng, splitVars, splitOut, finetuneArg, splitRuns, cfgRuns,
                   cfgBefore>>

\* open(config_file, 'w'): the file is emptied before anything is written
CfgOpen ==
    /\ pc = "cfg_assigned"
    /\ configFile' = Truncated
    /\ pc' = "cfg_writing"
    /\ UNCHANGED <<error, cwd, rawFile, trainFile, testFile, dirs, rng,
                   splitVars, splitOut, configs, finetuneArg, splitRuns,
                   cfgRuns, cfgBefore>>

\* json.dump(configs, f, indent=2) and the close of the with block
CfgDump ==
    /\ pc = "cfg_writing"
    /\ configFile' = ConfigText(JsonDump(configs), TRUE)
    /\ pc' = "config_done"
    /\ cfgRuns' = cfgRuns + 1
    /\ UNCHANGED <<error, cwd, rawFile, trainFile, testFile, dirs, rng,
                   splitVars, splitOut, configs, finetuneArg, splitRuns,
                   cfgBefore>>

\* the kernel is interrupted, or the write fails, inside the with block:
\* the block closes the file with what json.dump wrote so far, that is some
\* of the members and no closing brace, or, when the last chunk was out
\* already, the whole object
CfgInterrupt ==
    /\ pc = "cfg_writing"
    /\ \/ \E k \in 0..Len(configs.keys) :
             configFile' = ConfigText(SubSeq(JsonDump(configs), 1, k), FALSE)
       \/ configFile' = ConfigText(JsonDump(configs), TRUE)
    /\ error' = "interrupted"
    /\ pc' = "aborted"
    /\ UNCHANGED <<cwd, rawFile, trainFile, testFile, dirs, rng, splitVars,
                   splitOut, configs, finetuneArg, splitRuns, cfgRuns,
                   cfgBefore>>

\* the kernel is interrupted before the file is opened for writing: while
\* the cell opens and loads the file (configs is still what it was before
\* the cell), after the load, or after the assignment
CfgInterruptBefore ==
    /\ CanMerge \/ pc \in {"cfg_loaded", "cfg_assigned"}
    /\ error' = "interrupted"
    /\ pc' = "aborted"
    /\ UNCHANGED <<cwd, rawFile, trainFile, testFile, dirs, configFile, rng,
                   splitVars, splitOut, configs, finetuneArg, splitRuns,
                   cfgRuns, cfgBefore>>

(***************************************************************************)
(* The fine-tuning cell.                                                   *)
(***************************************************************************)
\* %cd lora, then !python finetune.py competition_llama_3_1_8b_8bits_r8_lora
FineTune ==
    /\ pc = "config_done"
    /\ cwd' = Append(cwd, "lora")
    /\ finetuneArg' = FinetuneKey
    /\ pc' = "finetune_done"
    /\ UNCHANGED <<error, rawFile, trainFile, testFile, dirs, configFile, rng,
                   splitVars, splitOut, configs, splitRuns, cfgRuns, cfgBefore>>

Next ==
    \/ SplitPresent
    \/ SplitMissing
    \/ CfgLoad
    \/ CfgLoadFail
    \/ CfgAssign
    \/ CfgOpen
    \/ CfgDump
    \/ CfgInterrupt
    \/ CfgInterruptBefore
    \/ FineTune

Spec == Init /\ [][Next]_vars

\* executions of the splitter cell, with other uses of the global generator
\* between them
SplitNext ==
    \/ SplitPresent
    \/ SplitMissing
    \/ OtherRandomUse

SplitSpec == SplitInit /\ [][SplitNext]_vars


(***************************************************************************)
(* Properties.                                                             *)
(***************************************************************************)
\* the lines of the raw input, as the file holds them
InputLines == SplitLines(ReadText(rawFile.text))

\* the values a sequence holds
Values(q) == {q[i] : i \in 1..Len(q)}

\* the splitter has split the raw input
HasSplit == splitRuns >= 1 /\ rawFile.exists

\* occurrences of v in the sequence q
Occurrences(v, q) == Cardinality({i \in 1..Len(q) : q[i] = v})

\* the step is an execution of the splitter cell
SplitterStep == splitRuns' = splitRuns + 1

\* C1: after a split of an n-line input the two partitions hold n lines
\* together and the train partition holds floor(0.8 n) of them, that is the
\* t with 10 t <= 8 n < 10 (t + 1); a 10-line input gives 8 and 2.
SplitSizes ==
    HasSplit =>
        /\ Len(train_lines) + Len(test_lines) = Len(InputLines)
        /\ 10 * Len(train_lines) <= 8 * Len(InputLines)
        /\ 8 * Len(InputLines) < 10 * (Len(train_lines) + 1)
        /\ Len(InputLines) = 10 => Len(train_lines) = 8 /\ Len(test_lines) = 2

SplitSizesWitness ==
    /\ HasSplit
    /\ Len(InputLines) = 10
    /\ Len(train_lines) = 8
    /\ Len(test_lines) = 2

\* C2: after a split every line value occurs in the train and test
\* partitions together as often as in the input, repeated lines included:
\* the partitions' multiset union is the input's multiset.
SplitIsPartition ==
    HasSplit =>
        /\ \A v \in Values(InputLines) \cup Values(train_lines)
                      \cup Values(test_lines) :
              Occurrences(v, train_lines) + Occurrences(v, test_lines)
                  = Occurrences(v, InputLines)
        /\ Len(train_lines) + Len(test_lines) = Len(InputLines)

SplitIsPartitionWitness ==
    /\ HasSplit
    /\ Occurrences(<<"a">>, InputLines) >= 2
    /\ Occurrences(<<"b">>, InputLines) >= 1
    /\ Occurrences(<<"a">>, train_lines) >= 1
    /\ Occurrences(<<"a">>, test_lines) >= 1
    /\ lines # InputLines

\* C3: when the config merger has rewritten the file, the file's keys are
\* the keys it found plus the merged key, and every other key has the value
\* it had.
MergeFrame ==
    pc \in {"config_done", "finetune_done"} =>
        LET old == JsonLoad(cfgBefore.members)
            new == JsonLoad(configFile.members)
        IN  /\ configFile.closed
            /\ KeySet(new) = KeySet(old) \cup {MergeKey}
            /\ \A k \in KeySet(old) \ {MergeKey} : Lookup(new, k) = Lookup(old, k)

MergeFrameWitness ==
    /\ pc = "config_done"
    /\ KeySet(JsonLoad(cfgBefore.members)) = {"m1", FinetuneKey}
    /\ KeySet(JsonLoad(configFile.members)) = {"m1", FinetuneKey, MergeKey}
    /\ Lookup(JsonLoad(configFile.members), "m1") = OtherEntry

\* C4: an execution of the splitter cell without the raw file prints the
\* request to create it, leaves the train file, the test file and the
\* directories as they were and raises nothing, and the config merger can
\* run after it.
MissingInputSoft ==
    /\ [][(SplitterStep /\ ~rawFile.exists) =>
            /\ splitOut'.kind = "create"
            /\ trainFile' = trainFile
            /\ testFile' = testFile
            /\ dirs' = dirs
            /\ error' = "none"
            /\ pc' = "split_done"]_vars
    /\ []((pc = "split_done" /\ ~rawFile.exists) =>
            error = "none" /\ ENABLED (CfgLoad \/ CfgLoadFail))

MissingInputSoftWitness ==
    /\ ~rawFile.exists
    /\ splitOut.kind = "create"
    /\ pc = "cfg_loaded"
    /\ trainFile = StaleFile
    /\ ~testFile.exists
    /\ TestDir \notin dirs

\* C5: an execution of the splitter cell after an earlier one over the same
\* raw input writes the train and test files the earlier one wrote,
\* whatever state the global generator was left in between.
SplitDeterministic ==
    [][(SplitterStep /\ HasSplit) =>
          trainFile' = trainFile /\ testFile' = testFile]_vars

SplitDeterministicWitness ==
    /\ HasSplit
    /\ splitRuns >= 2
    /\ Len(lines) >= 3
    /\ lines # InputLines
    /\ trainFile = TextFile(PartitionText(train_lines))

\* C6: a second execution of the config merger in a row leaves the config
\* file as the first left it.
MergeIdempotent ==
    [][(pc = "cfg_writing" /\ pc' = "config_done" /\ cfgRuns >= 1) =>
          configFile' = cfgBefore]_vars

MergeIdempotentWitness ==
    /\ pc = "config_done"
    /\ cfgRuns = 2
    /\ configFile = cfgBefore
    /\ Len(configFile.members) >= 2

\* C7: when finetune.py is started, its argument is the key the config
\* merger inserted, that key is in the config file, and the dataset_path of
\* its entry names, from the directory finetune.py runs in, the train file
\* of the splitter.
FinetuneGetsMerged ==
    pc = "finetune_done" =>
        /\ finetuneArg = MergeKey
        /\ HasKey(JsonLoad(configFile.members), finetuneArg)
        /\ Resolve(cwd, Lookup(JsonLoad(configFile.members), MergeKey).dataset_path)
              = TrainPath

\* C8: from the moment the config merger has read the config file, the file
\* holds the complete object it found or the complete updated object, also
\* after an interrupted run.
ConfigNeverTorn ==
    (pc \in {"cfg_loaded", "cfg_assigned", "cfg_writing", "config_done"}
        \/ error = "interrupted") =>
        \/ configFile = cfgBefore
        \/ configFile =
              ConfigText(JsonDump(MergeEntry(JsonLoad(cfgBefore.members))), TRUE)

\* C9, as stated: after a split of an empty input both partitions are
\* empty, and after a split of an input of fewer than 2 lines the test
\* partition is empty.
SmallInputsTestEmpty ==
    HasSplit =>
        /\ Len(InputLines) = 0 => train_lines = <<>> /\ test_lines = <<>>
        /\ Len(InputLines) < 2 => test_lines = <<>>

\* C9, amended: after a split of an empty input both partitions are empty,
\* and after a split of an input of fewer than 2 lines the train partition
\* is empty and the test partition holds the input's lines.
SmallInputsTrainEmpty ==
    HasSplit =>
        /\ Len(InputLines) = 0 => train_lines = <<>> /\ test_lines = <<>>
        /\ Len(InputLines) < 2 => train_lines = <<>> /\ test_lines = InputLines

SmallInputsWitness ==
    /\ HasSplit
    /\ Len(InputLines) = 1
    /\ train_lines = <<>>
    /\ Len(test_lines) = 1

\* C10: after a split, the lines of the train file are the train partition
\* and the lines of the test file are the test partition.
SplitFilesRoundTrip ==
    HasSplit =>
        /\ SplitLines(ReadText(trainFile.text)) = train_lines
        /\ SplitLines(ReadText(testFile.text)) = test_lines

=============================================================================
